---- MODULE Spec2Model ----
(***************************************************************************)
(* Model of the audio pipeline of src/audio/buffer.py (AudioBufferManager: *)
(* segmenter and chunk dispatcher), src/audio/vad.py (VADProcessor) and    *)
(* src/audio/recorder.py (AudioRecorder: start, stop and capture loop).    *)
(*                                                                         *)
(* Audio is counted in blocks of BlockBytes bytes; every block of the      *)
(* input stream carries its own position in the stream (1, 2, 3, ...), so  *)
(* that a byte range of the code is a sub-sequence of block numbers and    *)
(* loss, duplication and reordering of audio are visible.  All byte sizes  *)
(* of the code (chunk_size_bytes, ...) are kept in bytes.                  *)
(*                                                                         *)
(* Threads: the caller of the public methods (caller_pc), the capture      *)
(* threads running _recording_loop (cap_pc) and the dispatcher threads     *)
(* running _process_chunks (disp_pc).  A thread that a timed-out join      *)
(* left behind stays alive next to the thread a later start creates.       *)
(***************************************************************************)
EXTENDS Integers, Sequences, FiniteSets, TLC

(* ---------------------------- bounds ----------------------------------- *)
MaxBlocks      == 6   \* blocks of audio fed to add_audio_data in one run, fixed mode
MaxDynamicBlocks == 4 \* the same in dynamic mode, where every frame is classified
MaxFrameBlocks == 3   \* largest frame, in blocks
MaxQueue       == 2   \* largest queue_maxsize
MaxClock       == 1   \* largest reading of time.time()
MaxDispatchers == 2   \* _process_chunks threads alive at the same time
MaxCaptures    == 2   \* _recording_loop threads alive at the same time
MaxPipelineBlocks == 4 \* blocks of audio the capture loops read in one run
MaxVadCalls    == 5   \* direct calls of the VADProcessor in one run
MaxCalls       == 3   \* calls of the public start and stop methods a run records
MaxReadFaults  == 1   \* failures of stream.read one capture thread lives through
MaxClears      == 1   \* calls of clear() a run records

\* constructor arguments tried, in seconds and milliseconds
ChunkDurations    == {1, 2}
Overlaps          == {0, 1}
MinChunks         == {1, 2}
MaxChunks         == {1, 2}
SilenceThresholds == {500, 1000}

(* ------------------------ program constants ---------------------------- *)
sample_rate == 16000
channels    == 1

BlockBytes == sample_rate      \* one block = half a second of 16-bit mono

\* Python None (never a valid time, chunk, thread or byte sequence)
None == 0 - 1

Dispatchers == 1..MaxDispatchers
Captures    == 1..MaxCaptures

\* the thread that calls add_audio_data when no capture loop does
Caller == 0

\* the stream object pyaudio.open returns
OpenStream == 1

VARIABLES
  config,                 \* constructor arguments of AudioBufferManager
  SILERO_VAD_AVAILABLE,   \* module flag of vad.py
  frame_blocks,           \* size of the frames the capture loop delivers
  feed,                   \* what the classifier is fed: "any", "speech" or "scenario"
  alive_limit,            \* dispatcher and capture threads this run lets live at the same time
  trace,                  \* the history variables this run records
  buffer, previous_overlap, is_speaking, silence_duration_ms,
  chunk_queue, total_chunks_processed, total_chunks_skipped,
  start_time, is_processing,
  processing_thread,      \* the dispatcher thread stop_processing joins
  vad,                    \* VADProcessor: is_speaking, silence_frames, speech_frames
  aggressiveness,         \* VADProcessor.aggressiveness
  threshold,              \* VADProcessor.threshold, in tenths
  now,                    \* last reading of time.time()
  seg_pc, pending,        \* position of add_audio_data/_create_chunk, chunk in hand
  buffer_lock,            \* the thread inside "with self.buffer_lock", or None
  disp_pc, disp_chunk, processed_chunk,   \* per thread: position and locals of _process_chunks
  extract_outcome,        \* per thread: what the batch detector did with the chunk in hand
  is_recording, stream, total_frames_recorded,   \* AudioRecorder
  recording_thread,       \* the capture thread stop_recording joins
  cap_pc,                 \* per thread: position of _recording_loop
  caller_pc,              \* position of the caller inside start_recording / stop_recording / stop_processing
  \* history
  total_in,               \* blocks passed to add_audio_data so far
  created,                \* every chunk _create_chunk built, in order
  enqueued,               \* production numbers of the chunks put on the queue
  evicted,                \* production numbers removed by _create_chunk's get_nowait
  dequeued,               \* production numbers popped by the dispatcher, in order
  callback_log,           \* production numbers passed to on_chunk_ready, in order
  skipped,                \* production numbers the dispatcher skipped
  raised,                 \* production numbers for which on_chunk_ready raised
  queue_at_put,           \* the queue as the last first put_nowait found it
  pops_since_put,         \* dispatcher pops since that put_nowait
  pops_after_stop,        \* per thread: pops since is_processing was cleared under it, or None
  joined,                 \* joins stop_recording / stop_processing have attempted since the stop began
  vad_call,               \* the last call of the VADProcessor: operation, detector outcome, result
  vad_calls,              \* direct calls of the VADProcessor so far
  speech_seen,            \* a frame was classified speech since __init__, reset_state or the last speech_end
  last_call,              \* the last call of a public start or stop method, how it went, calls so far
  cap_faults,             \* per thread: failures of stream.read the loop has lived through
  suppressed_end,         \* since the last cut a speech_end came on a buffer below min_chunk_size_bytes
  last_clear              \* the last clear() that returned: input and chunks so far, pipeline stopped or not

envVars   == <<config, SILERO_VAD_AVAILABLE, frame_blocks, feed, alive_limit, trace>>
segVars   == <<buffer, previous_overlap, is_speaking, silence_duration_ms, seg_pc,
               pending, buffer_lock, total_in, created, queue_at_put>>
vadVars   == <<vad, vad_call, vad_calls, speech_seen>>
queueVars == <<chunk_queue, enqueued, evicted, pops_since_put>>
timeVars  == <<start_time, now>>
procVars  == <<is_processing, processing_thread>>
dispVars  == <<disp_pc, disp_chunk, processed_chunk, extract_outcome, dequeued,
               callback_log, skipped, raised, total_chunks_processed,
               total_chunks_skipped, pops_after_stop>>
recVars   == <<is_recording, stream, total_frames_recorded, recording_thread, cap_pc>>
callVars  == <<caller_pc, joined>>
tuneVars  == <<aggressiveness, threshold>>
logVars   == <<last_call, cap_faults>>
histVars  == <<suppressed_end, last_clear>>

vars == <<envVars, segVars, vadVars, queueVars, timeVars, procVars, dispVars,
          recVars, callVars, tuneVars, logVars, histVars>>

(* --------------------------- byte arithmetic --------------------------- *)
LenBytes(s) == Len(s) * BlockBytes

\* Python slice s[from:to] with byte offsets that fall on block boundaries
Slice(s, from, to) == SubSeq(s, (from \div BlockBytes) + 1, to \div BlockBytes)

\* del s[:n]
DelPrefix(s, n) == SubSeq(s, (n \div BlockBytes) + 1, Len(s))

(* ------------------- AudioBufferManager.__init__ ----------------------- *)
chunk_size_bytes     == 2 * sample_rate * channels * config.chunk_duration_sec
min_chunk_size_bytes == 2 * sample_rate * channels * config.min_chunk_sec
max_chunk_size_bytes == 2 * sample_rate * channels * config.max_chunk_sec
overlap_size_bytes   == 2 * sample_rate * channels * config.chunk_overlap_sec

vad_enabled == config.vad_enabled

Configs ==
  [chunk_duration_sec   : ChunkDurations,
   chunk_overlap_sec    : Overlaps,
   min_chunk_sec        : MinChunks,
   max_chunk_sec        : MaxChunks,
   silence_threshold_ms : SilenceThresholds,
   queue_maxsize        : 1..MaxQueue,
   vad_enabled          : BOOLEAN]

VadInit == [is_speaking |-> FALSE, silence_frames |-> 0, speech_frames |-> 0]

\* vad_aggressiveness, the default of AudioBufferManager.__init__
DefaultAggressiveness == 2

\* __init__ and set_aggressiveness: threshold_map.get(aggressiveness, 0.5), in tenths
ThresholdMap(level) ==
  IF level = 0 THEN 1
  ELSE IF level = 1 THEN 3
  ELSE IF level = 2 THEN 5
  ELSE IF level = 3 THEN 7
  ELSE 5

NoCall == [op |-> "none", outcome |-> "none", n |-> 0]

NoClear == [n |-> 0, stopped |-> FALSE, total_in |-> 0, created |-> 0]

NoVadCall == [op |-> "none", detect |-> "none", input |-> << >>, result |-> "none"]

\* the locals chunk, timestamp of a thread that holds no queue element
NoItem == [chunk |-> << >>, timestamp |-> 0, n |-> 0]

\* the state after AudioBufferManager.__init__ and AudioRecorder.__init__
InitState(cfgs, available, frames, feeds, alive, traced, clock) ==
  /\ SILERO_VAD_AVAILABLE \in available
  /\ \E c \in cfgs :
       \* vad_enabled is switched off when the model did not load
       config = [c EXCEPT !.vad_enabled = c.vad_enabled /\ SILERO_VAD_AVAILABLE]
  /\ frame_blocks \in frames
  /\ feed \in feeds
  /\ alive_limit = alive
  /\ trace = traced
  /\ buffer = << >>
  /\ previous_overlap = << >>
  /\ is_speaking = FALSE
  /\ silence_duration_ms = 0
  /\ chunk_queue = << >>
  /\ total_chunks_processed = 0
  /\ total_chunks_skipped = 0
  /\ start_time = None
  /\ is_processing = FALSE
  /\ processing_thread = None
  /\ vad = VadInit
  /\ now = clock
  /\ seg_pc = "idle"
  /\ pending = NoItem
  /\ buffer_lock = None
  /\ disp_pc = [t \in Dispatchers |-> "none"]
  /\ disp_chunk = [t \in Dispatchers |-> NoItem]
  /\ processed_chunk = [t \in Dispatchers |-> << >>]
  /\ extract_outcome = [t \in Dispatchers |-> "none"]
  /\ is_recording = FALSE
  /\ stream = None
  /\ total_frames_recorded = 0
  /\ recording_thread = None
  /\ cap_pc = [c \in Captures |-> "none"]
  /\ caller_pc = "idle"
  /\ total_in = 0
  /\ created = << >>
  /\ enqueued = {}
  /\ evicted = {}
  /\ dequeued = << >>
  /\ callback_log = << >>
  /\ skipped = {}
  /\ raised = {}
  /\ queue_at_put = << >>
  /\ pops_since_put = 0
  /\ pops_after_stop = [t \in Dispatchers |-> None]
  /\ joined = {}
  /\ vad_call = NoVadCall
  /\ vad_calls = 0
  /\ speech_seen = FALSE
  /\ aggressiveness = DefaultAggressiveness
  /\ threshold = ThresholdMap(DefaultAggressiveness)
  /\ last_call = NoCall
  /\ cap_faults = [c \in Captures |-> 0]
  /\ suppressed_end = FALSE
  /\ last_clear = NoClear

\* one thread of each kind alive at a time
OneThread == [dispatchers |-> 1, captures |-> 1]

\* one manager used directly, with one dispatcher thread alive at a time
InitWith(cfgs, available) ==
  InitState(cfgs, available, 1..MaxFrameBlocks, {"any"}, OneThread, {}, 0)

(* ------------------------- VADProcessor -------------------------------- *)
\* what the Silero iterator / detector does with one call
Detections == {"speech", "none", "error"}

\* a process_frame that lets a detector failure out as a result of its own
ProcessFrame_ErrorEscapes(v, detect, frame_len, silence_threshold_ms) ==
  IF detect = "error" THEN [result |-> "error", state |-> v]
  ELSE IF detect = "speech" THEN
    [result |-> "speech",
     state  |-> [is_speaking |-> TRUE, silence_frames |-> 0,
                 speech_frames |-> v.speech_frames + 1]]
  ELSE [result |-> "silence", state |-> [v EXCEPT !.silence_frames = @ + 1]]

\* a process_frame that reports speech_end and goes on speaking
ProcessFrame_StaysSpeaking(v, detect, frame_len, silence_threshold_ms) ==
  IF ~SILERO_VAD_AVAILABLE \/ detect = "error" THEN [result |-> "speech", state |-> v]
  ELSE IF detect = "speech" THEN
    [result |-> "speech",
     state  |-> [is_speaking |-> TRUE, silence_frames |-> 0,
                 speech_frames |-> v.speech_frames + 1]]
  ELSE
    LET silence_frames    == v.silence_frames + 1
        frame_duration_ms == (frame_len * 1000) \div (sample_rate * 2)
    IN [result |-> IF v.is_speaking
                      /\ silence_frames * frame_duration_ms >= silence_threshold_ms
                   THEN "speech_end" ELSE "silence",
        state  |-> [v EXCEPT !.silence_frames = silence_frames]]

\* VADProcessor.process_frame: the returned string and the processor's new state
ProcessFrame(v, detect, frame_len, silence_threshold_ms) ==
  IF ~SILERO_VAD_AVAILABLE THEN [result |-> "speech", state |-> v]
  ELSE IF detect = "error" THEN [result |-> "speech", state |-> v]
  ELSE IF detect = "speech" THEN
    [result |-> "speech",
     state  |-> [is_speaking |-> TRUE, silence_frames |-> 0,
                 speech_frames |-> v.speech_frames + 1]]
  ELSE
    LET silence_frames    == v.silence_frames + 1
        frame_duration_ms == (frame_len * 1000) \div (sample_rate * 2)
    IN IF v.is_speaking /\ silence_frames * frame_duration_ms >= silence_threshold_ms
       THEN [result |-> "speech_end",
             state  |-> [is_speaking |-> FALSE, silence_frames |-> silence_frames,
                         speech_frames |-> 0]]
       ELSE [result |-> "silence",
             state  |-> [v EXCEPT !.silence_frames = silence_frames]]

\* VADProcessor.reset_state
ResetState(v) == [is_speaking |-> FALSE, silence_frames |-> 0, speech_frames |-> 0]

\* outcomes of the batch detector on a clip of n blocks: no speech, one speech
\* span covering the first j blocks, or a failure
ExtractOutcomes(n) == {[kind |-> "none", upto |-> 0], [kind |-> "error", upto |-> 0]}
                      \cup {[kind |-> "span", upto |-> j] : j \in 1..n}

\* an extraction that runs the detector whether the model loaded or not
ExtractSpeechSegments_IgnoresAvailability(audio_data, outcome) ==
  IF outcome.kind = "error" THEN audio_data
  ELSE IF outcome.kind = "none" THEN << >>
  ELSE Slice(audio_data, 0, outcome.upto * BlockBytes)

\* VADProcessor.extract_speech_segments
ExtractSpeechSegments(audio_data, outcome) ==
  IF ~SILERO_VAD_AVAILABLE THEN audio_data
  ELSE IF outcome.kind = "error" THEN audio_data
  ELSE IF outcome.kind = "none" THEN << >>
  ELSE Slice(audio_data, 0, outcome.upto * BlockBytes)

\* whether a frame has been classified speech since the last speech_end
SpeechSeenAfter(seen, detect, result) ==
  IF result = "speech_end" THEN FALSE
  ELSE IF SILERO_VAD_AVAILABLE /\ detect = "speech" THEN TRUE
  ELSE seen

(* ---------------------- AudioBufferManager ----------------------------- *)
\* add_audio_data, lines 137-146: the manager's speech state after a frame
SpeechStateAfter(speaking, silence_ms, vad_result, frame_duration_ms) ==
  IF vad_result = "speech" THEN [is_speaking |-> TRUE, silence_duration_ms |-> 0]
  ELSE IF vad_result = "silence" THEN
    [is_speaking |-> speaking,
     silence_duration_ms |-> IF speaking THEN silence_ms + frame_duration_ms ELSE silence_ms]
  ELSE IF vad_result = "speech_end" THEN [is_speaking |-> FALSE, silence_duration_ms |-> 0]
  ELSE [is_speaking |-> speaking, silence_duration_ms |-> silence_ms]

\* the cut decision without the forced cut at max_chunk_size_bytes
ShouldSplit_NoForcedCut(buf, vad_result) ==
  LenBytes(buf) >= min_chunk_size_bytes /\ vad_result = "speech_end"

\* the cut decision without the cut at speech_end
ShouldSplit_OnlyForcedCut(buf, vad_result) == LenBytes(buf) >= max_chunk_size_bytes

\* the cut decision with a forced cut that a frame of silence does not trigger
ShouldSplit_NoForcedCutInSilence(buf, vad_result) ==
  IF LenBytes(buf) >= max_chunk_size_bytes /\ vad_result # "silence" THEN TRUE
  ELSE LenBytes(buf) >= min_chunk_size_bytes /\ vad_result = "speech_end"

\* add_audio_data, lines 151-161: the cut decision of dynamic mode
ShouldSplit(buf, vad_result) ==
  IF LenBytes(buf) >= max_chunk_size_bytes THEN TRUE
  ELSE LenBytes(buf) >= min_chunk_size_bytes /\ vad_result = "speech_end"

\* add_audio_data, lines 153-161: which of the two conditions cut
SplitCause(buf) == IF LenBytes(buf) >= max_chunk_size_bytes THEN "max" ELSE "speech_end"

\* add_audio_data, line 169: the cut decision of fixed mode
FixedSplit(buf) == LenBytes(buf) >= chunk_size_bytes

\* _create_chunk, line 180
ChunkWithOverlap(overlap, buf) == overlap \o Slice(buf, 0, LenBytes(buf))

\* a cut that carries nothing when the buffer is shorter than the overlap
NextOverlap_NothingWhenShort(buf) ==
  LET chunk_size == LenBytes(buf)
  IN IF overlap_size_bytes > 0 /\ chunk_size >= overlap_size_bytes
     THEN Slice(buf, chunk_size - overlap_size_bytes, chunk_size)
     ELSE << >>

\* _create_chunk, lines 183-188
NextOverlap(buf) ==
  LET chunk_size == LenBytes(buf)
  IN IF overlap_size_bytes > 0 /\ chunk_size >= overlap_size_bytes
     THEN Slice(buf, chunk_size - overlap_size_bytes, chunk_size)
     ELSE Slice(buf, 0, chunk_size)

\* a cut that leaves the overlap in the buffer as well
BufferAfterCut_KeepsOverlap(buf) ==
  DelPrefix(buf, IF LenBytes(buf) >= BlockBytes THEN LenBytes(buf) - BlockBytes ELSE 0)

\* _create_chunk, line 191
BufferAfterCut(buf) == DelPrefix(buf, LenBytes(buf))

\* _get_current_timestamp, reading the clock as t
CurrentTimestamp(t) == IF start_time = None THEN 0 ELSE t - start_time

\* queue.Queue
QueueFull(q) == 0 < config.queue_maxsize /\ config.queue_maxsize <= Len(q)
\* a queue that puts at the front
QueuePut_AtFront(q, item) == <<item>> \o q
QueuePut(q, item) == Append(q, item)
QueueFront(q) == Head(q)
\* a queue whose get drops the newest element
QueueRest_DropsNewest(q) == SubSeq(q, 1, Len(q) - 1)
QueueRest(q) == Tail(q)
\* a queue whose blocking get hands out the oldest element and keeps it
QueueAfterGet_KeepsElement(q) == q
\* queue.Queue.get: the queue a successful get leaves
QueueAfterGet(q) == Tail(q)

\* a put that waits for a free slot
PutNowaitReturns_WaitsForSlot(q) == ~QueueFull(q)
\* queue.Queue.put_nowait: it returns or raises queue.Full at once
PutNowaitReturns(q) == TRUE

\* _create_chunk up to its first put_nowait; buf is the buffer with the frame
\* appended, who holds buffer_lock, cause is the condition that cut
CreateChunk(buf, who, cause) ==
  \E t \in now..MaxClock :
    LET chunk_with_overlap == ChunkWithOverlap(previous_overlap, buf)
        item == [chunk |-> chunk_with_overlap, timestamp |-> CurrentTimestamp(t),
                 n |-> Len(created) + 1]
    IN /\ now' = t
       /\ start_time' = IF start_time = None THEN t ELSE start_time
       /\ previous_overlap' = NextOverlap(buf)
       /\ buffer' = BufferAfterCut(buf)
       /\ created' = Append(created, [chunk |-> chunk_with_overlap,
                                      overlap_len |-> Len(previous_overlap),
                                      cause |-> cause,
                                      after_suppressed_end |-> suppressed_end,
                                      timestamp |-> IF "timestamp" \in trace
                                                    THEN item.timestamp ELSE 0])
       /\ queue_at_put' = chunk_queue
       /\ pops_since_put' = 0
       /\ IF QueueFull(chunk_queue)
          THEN /\ PutNowaitReturns(chunk_queue)
               /\ seg_pc' = "evict"
               /\ pending' = item
               /\ buffer_lock' = who
               /\ UNCHANGED <<chunk_queue, enqueued>>
          ELSE /\ chunk_queue' = QueuePut(chunk_queue, item)
               /\ enqueued' = enqueued \cup {item.n}
               /\ UNCHANGED <<seg_pc, pending, buffer_lock>>

NoCut(buf) ==
  /\ buffer' = buf
  /\ UNCHANGED <<previous_overlap, start_time, now, created, queue_at_put,
                 pops_since_put, seg_pc, pending, buffer_lock, chunk_queue, enqueued>>

\* the smallest number of blocks that holds n bytes
BlocksCovering(n) == (n + BlockBytes - 1) \div BlockBytes

\* the scenario feed: twenty seconds of speech, then 600 ms of silence
ScenarioSpeechBlocks  == BlocksCovering(20 * 2 * sample_rate * channels)
ScenarioSilenceBlocks == BlocksCovering((600 * 2 * sample_rate * channels) \div 1000)

\* the audio one run feeds
InputBudget ==
  IF feed = "scenario" THEN ScenarioSpeechBlocks + ScenarioSilenceBlocks
  ELSE IF vad_enabled THEN MaxDynamicBlocks ELSE MaxBlocks

\* what the streaming detector can make of the frame that starts after `before` blocks
DetectionsAt(before) ==
  IF feed = "scenario"
  THEN (IF before < ScenarioSpeechBlocks THEN {"speech"} ELSE {"none"})
  ELSE IF feed = "speech" THEN {"speech"}
  ELSE Detections

\* whether, after this frame, a speech_end that cut nothing lies behind in the buffer
SuppressedEndAfter(vad_result, cut) ==
  IF "suppressed_end" \notin trace THEN suppressed_end
  ELSE IF cut THEN FALSE
  ELSE suppressed_end \/ vad_result = "speech_end"

\* add_audio_data with one frame of frame_blocks blocks, called by thread who
AddAudioDataBy(who) ==
  /\ seg_pc = "idle"
  /\ buffer_lock = None
  /\ LET audio_data == [i \in 1..frame_blocks |-> total_in + i]
         buf == buffer \o audio_data
     IN /\ total_in' = total_in + frame_blocks
        /\ IF vad_enabled
           THEN \E detect \in DetectionsAt(total_in) :
                  LET r == ProcessFrame(vad, detect, LenBytes(audio_data),
                                        config.silence_threshold_ms)
                      frame_duration_ms == (LenBytes(audio_data) * 1000) \div (sample_rate * 2)
                      st == SpeechStateAfter(is_speaking, silence_duration_ms,
                                             r.result, frame_duration_ms)
                  IN /\ vad' = r.state
                     /\ vad_call' = IF "vad_call" \in trace
                                     THEN [op |-> "process_frame", detect |-> detect,
                                           input |-> << >>, result |-> r.result]
                                     ELSE vad_call
                     /\ speech_seen' = SpeechSeenAfter(speech_seen, detect, r.result)
                     /\ is_speaking' = st.is_speaking
                     /\ suppressed_end' = SuppressedEndAfter(r.result, ShouldSplit(buf, r.result))
                     /\ IF ShouldSplit(buf, r.result)
                        THEN /\ CreateChunk(buf, who, SplitCause(buf))
                             /\ silence_duration_ms' = 0
                        ELSE /\ NoCut(buf)
                             /\ silence_duration_ms' = st.silence_duration_ms
           ELSE /\ UNCHANGED <<vad, vad_call, speech_seen, is_speaking, silence_duration_ms,
                              suppressed_end>>
                /\ IF FixedSplit(buf) THEN CreateChunk(buf, who, "fixed") ELSE NoCut(buf)
  /\ UNCHANGED <<envVars, tuneVars, logVars, last_clear, vad_calls, evicted, procVars, dispVars, callVars>>

\* add_audio_data called directly
AddAudioData ==
  /\ total_in + frame_blocks <= InputBudget
  /\ AddAudioDataBy(Caller)
  /\ UNCHANGED recVars

\* the capture loop is back at its loop test when add_audio_data has returned
CaptureAfterAdd(who) ==
  IF who \in Captures THEN [cap_pc EXCEPT ![who] = "test"] ELSE cap_pc

\* an add_audio_data that keeps buffer_lock when its get_nowait found nothing
LockAfterEmpty_StillHeld(who) == who
\* add_audio_data, line 125: the with statement releases buffer_lock on every way out
LockAfterEmpty(who) == None

\* _create_chunk, line 205: get_nowait after queue.Full
EvictOldest ==
  /\ seg_pc = "evict"
  /\ IF chunk_queue = << >>
     THEN \* queue.Empty: the except clause passes, the new chunk is not put
          /\ seg_pc' = "idle"
          /\ pending' = NoItem
          /\ buffer_lock' = LockAfterEmpty(buffer_lock)
          /\ cap_pc' = CaptureAfterAdd(buffer_lock)
          /\ UNCHANGED <<chunk_queue, evicted>>
     ELSE /\ evicted' = evicted \cup {QueueFront(chunk_queue).n}
          /\ chunk_queue' = QueueRest(chunk_queue)
          /\ seg_pc' = "reput"
          /\ UNCHANGED <<pending, buffer_lock, cap_pc>>
  /\ UNCHANGED <<envVars, tuneVars, logVars, histVars, buffer, previous_overlap, is_speaking, silence_duration_ms,
                 total_in, created, queue_at_put, vadVars, enqueued, pops_since_put,
                 timeVars, procVars, dispVars, is_recording, stream,
                 total_frames_recorded, recording_thread, callVars>>

\* _create_chunk, line 206: the second put_nowait
PutAgain ==
  /\ seg_pc = "reput"
  /\ IF QueueFull(chunk_queue)
     THEN \* queue.Full leaves add_audio_data as an exception
          UNCHANGED <<chunk_queue, enqueued>>
     ELSE /\ chunk_queue' = QueuePut(chunk_queue, pending)
          /\ enqueued' = enqueued \cup {pending.n}
  /\ seg_pc' = "idle"
  /\ pending' = NoItem
  /\ buffer_lock' = None
  /\ cap_pc' = CaptureAfterAdd(buffer_lock)
  /\ UNCHANGED <<envVars, tuneVars, logVars, histVars, buffer, previous_overlap, is_speaking, silence_duration_ms,
                 total_in, created, queue_at_put, vadVars, evicted, pops_since_put,
                 timeVars, procVars, dispVars, is_recording, stream,
                 total_frames_recorded, recording_thread, callVars>>

(* ------------------------ chunk dispatcher ----------------------------- *)
OnChunkReadyOutcomes == {"returns", "raises"}

\* _process_chunks, line 263
min_chunk_size == sample_rate * 2

\* a dispatcher that skips only an empty extraction result
ShouldProcess_EmptyOnly(processed) == ~(vad_enabled /\ processed = << >>)

\* _process_chunks, lines 256-268: whether the chunk goes to the callback
ShouldProcess(processed) ==
  ~(vad_enabled /\ (processed = << >> \/ LenBytes(processed) < min_chunk_size))

\* dispatcher and capture threads that are not running
FreeDispatchers == {t \in Dispatchers : t <= alive_limit.dispatchers /\ disp_pc[t] \in {"none", "exited"}}
FreeCaptures    == {c \in Captures : c <= alive_limit.captures /\ cap_pc[c] \in {"none", "exited"}}

LowestOf(S) == CHOOSE x \in S : \A y \in S : x <= y

\* a join that waits until the thread has ended
JoinReturns_OnlyWhenEnded(ended, timed_out) == ended
\* Thread.join(timeout=5.0): returns when the thread has ended or the timeout has passed
JoinReturns(ended, timed_out) == ended \/ timed_out

\* the record of a public call, kept in the runs that trace last_call
LogCall(op, outcome) ==
  IF "last_call" \in trace
  THEN /\ last_call.n < MaxCalls
       /\ last_call' = [op |-> op, outcome |-> outcome, n |-> last_call.n + 1]
  ELSE UNCHANGED last_call

\* start_processing, running inside the caller
StartProcessingBody ==
  IF is_processing
  THEN \* "Processing already started"
       UNCHANGED <<is_processing, processing_thread, timeVars, disp_pc, pops_after_stop>>
  ELSE /\ FreeDispatchers # {}
       /\ is_processing' = TRUE
       /\ \E t \in now..MaxClock : now' = t /\ start_time' = t
       /\ processing_thread' = LowestOf(FreeDispatchers)
       /\ disp_pc' = [disp_pc EXCEPT ![LowestOf(FreeDispatchers)] = "check"]
       /\ pops_after_stop' = [pops_after_stop EXCEPT ![LowestOf(FreeDispatchers)] = None]

\* start_processing called directly
StartProcessing ==
  /\ caller_pc = "idle"
  /\ StartProcessingBody
  /\ LogCall("start_processing", IF is_processing THEN "already_started" ELSE "started")
  /\ UNCHANGED <<envVars, tuneVars, cap_faults, histVars, segVars, vadVars, queueVars, disp_chunk, processed_chunk,
                 extract_outcome, dequeued, callback_log, skipped, raised,
                 total_chunks_processed, total_chunks_skipped, recVars, callVars>>

\* a stop_processing that throws the unfinished buffer away
BufferAfterStop_Discards(buf) == << >>
\* stop_processing, lines 237-245: no statement assigns the buffer
BufferAfterStop(buf) == buf

\* stop_processing up to its join, running inside the caller
StopProcessingBody ==
  IF ~is_processing
  THEN /\ caller_pc' = "idle"
       /\ UNCHANGED <<procVars, pops_after_stop, joined, buffer>>
  ELSE /\ is_processing' = FALSE
       /\ buffer' = BufferAfterStop(buffer)
       /\ pops_after_stop' = [t \in Dispatchers |->
                                IF disp_pc[t] \in {"none", "exited"} \/ "pops_after_stop" \notin trace
                                THEN None ELSE 0]
       /\ caller_pc' = IF processing_thread # None THEN "join_dispatcher" ELSE "idle"
       /\ UNCHANGED <<processing_thread, joined>>

\* stop_processing called directly
StopProcessing ==
  /\ caller_pc = "idle"
  /\ StopProcessingBody
  /\ LogCall("stop_processing", IF is_processing THEN "stopping" ELSE "not_processing")
  /\ UNCHANGED <<envVars, tuneVars, cap_faults, histVars, previous_overlap, is_speaking,
                 silence_duration_ms, seg_pc, pending, buffer_lock, total_in, created,
                 queue_at_put, vadVars, queueVars, timeVars, disp_pc, disp_chunk,
                 processed_chunk, extract_outcome, dequeued, callback_log, skipped, raised,
                 total_chunks_processed, total_chunks_skipped, recVars>>

\* stop_processing, line 244: processing_thread.join(timeout=5.0), then return
JoinDispatcher ==
  /\ caller_pc = "join_dispatcher"
  /\ \E timed_out \in BOOLEAN :
       JoinReturns(disp_pc[processing_thread] = "exited", timed_out)
  /\ caller_pc' = "idle"
  /\ joined' = {}
  /\ UNCHANGED <<envVars, tuneVars, logVars, histVars, segVars, vadVars, queueVars, timeVars, procVars, dispVars,
                 recVars>>

\* _process_chunks, line 249: the loop test
LoopContinues(flag) == flag

\* _process_chunks, line 249
DispatcherCheck(t) ==
  /\ disp_pc[t] = "check"
  /\ disp_pc' = [disp_pc EXCEPT ![t] = IF LoopContinues(is_processing) THEN "get" ELSE "exited"]
  /\ UNCHANGED <<envVars, tuneVars, logVars, histVars, segVars, vadVars, queueVars, timeVars, procVars, disp_chunk,
                 processed_chunk, extract_outcome, dequeued, callback_log, skipped, raised,
                 total_chunks_processed, total_chunks_skipped,
                 pops_after_stop, recVars, callVars>>

\* _process_chunks, line 252: chunk_queue.get(timeout=1.0)
DispatcherGet(t) ==
  /\ disp_pc[t] = "get"
  /\ IF chunk_queue = << >>
     THEN \* queue.Empty after the timeout: continue
          /\ disp_pc' = [disp_pc EXCEPT ![t] = "check"]
          /\ UNCHANGED <<chunk_queue, disp_chunk, dequeued, pops_since_put, pops_after_stop>>
     ELSE /\ disp_chunk' = [disp_chunk EXCEPT ![t] = QueueFront(chunk_queue)]
          /\ chunk_queue' = QueueAfterGet(chunk_queue)
          /\ dequeued' = Append(dequeued, QueueFront(chunk_queue).n)
          /\ pops_since_put' = pops_since_put + 1
          /\ pops_after_stop' = [pops_after_stop EXCEPT
                                    ![t] = IF @ = None THEN None ELSE @ + 1]
          /\ disp_pc' = [disp_pc EXCEPT ![t] = "extract"]
  /\ UNCHANGED <<envVars, tuneVars, logVars, histVars, segVars, vadVars, enqueued, evicted, timeVars, procVars,
                 processed_chunk, extract_outcome, callback_log, skipped, raised,
                 total_chunks_processed, total_chunks_skipped, recVars, callVars>>

\* what the batch detector can make of a dequeued chunk of n blocks
ExtractOutcomesAt(n) ==
  IF feed = "scenario"
  THEN {[kind |-> "error", upto |-> 0],
        [kind |-> "span", upto |-> IF n < ScenarioSpeechBlocks THEN n ELSE ScenarioSpeechBlocks]}
  ELSE ExtractOutcomes(n)

\* _process_chunks, lines 255-260
DispatcherExtract(t) ==
  /\ disp_pc[t] = "extract"
  /\ IF vad_enabled
     THEN \E outcome \in ExtractOutcomesAt(Len(disp_chunk[t].chunk)) :
            /\ processed_chunk' = [processed_chunk EXCEPT
                                     ![t] = ExtractSpeechSegments(disp_chunk[t].chunk, outcome)]
            /\ extract_outcome' = IF "extract_outcome" \in trace
                                   THEN [extract_outcome EXCEPT ![t] = outcome.kind]
                                   ELSE extract_outcome
     ELSE /\ processed_chunk' = [processed_chunk EXCEPT ![t] = disp_chunk[t].chunk]
          /\ UNCHANGED extract_outcome
  /\ disp_pc' = [disp_pc EXCEPT ![t] = "deliver"]
  /\ UNCHANGED <<envVars, tuneVars, logVars, histVars, segVars, vadVars, queueVars, timeVars, procVars, disp_chunk,
                 dequeued, callback_log, skipped, raised, total_chunks_processed,
                 total_chunks_skipped, pops_after_stop, recVars, callVars>>

\* _process_chunks, lines 262-273: skip the chunk, or call on_chunk_ready
DispatcherDeliver(t) ==
  /\ disp_pc[t] = "deliver"
  /\ IF ShouldProcess(processed_chunk[t])
     THEN /\ callback_log' = Append(callback_log, disp_chunk[t].n)
          /\ disp_pc' = [disp_pc EXCEPT ![t] = "callback"]
          /\ UNCHANGED <<total_chunks_skipped, skipped, disp_chunk, processed_chunk>>
     ELSE /\ total_chunks_skipped' = total_chunks_skipped + 1
          /\ skipped' = IF "skipped" \in trace THEN skipped \cup {disp_chunk[t].n} ELSE skipped
          /\ disp_pc' = [disp_pc EXCEPT ![t] = "check"]
          /\ disp_chunk' = [disp_chunk EXCEPT ![t] = NoItem]
          /\ processed_chunk' = [processed_chunk EXCEPT ![t] = << >>]
          /\ UNCHANGED callback_log
  /\ extract_outcome' = [extract_outcome EXCEPT ![t] = "none"]
  /\ UNCHANGED <<envVars, tuneVars, logVars, histVars, segVars, vadVars, queueVars, timeVars, procVars, dequeued,
                 raised, total_chunks_processed, pops_after_stop, recVars, callVars>>

\* a loop that an exception of the callback ends
AfterCallback_RaiseEndsLoop(outcome) == IF outcome = "raises" THEN "exited" ELSE "check"
\* _process_chunks, lines 272-283: where the loop goes when the callback is over
AfterCallback(outcome) == "check"

\* _process_chunks, lines 273-278: on_chunk_ready returns or raises
CallbackEnds(t, outcome) ==
  /\ disp_pc[t] = "callback"
  /\ total_chunks_processed' =
       IF outcome = "returns" THEN total_chunks_processed + 1 ELSE total_chunks_processed
  /\ raised' = IF outcome = "raises" /\ "raised" \in trace
               THEN raised \cup {disp_chunk[t].n} ELSE raised
  /\ disp_pc' = [disp_pc EXCEPT ![t] = AfterCallback(outcome)]
  /\ disp_chunk' = [disp_chunk EXCEPT ![t] = NoItem]
  /\ processed_chunk' = [processed_chunk EXCEPT ![t] = << >>]
  /\ UNCHANGED <<envVars, tuneVars, logVars, histVars, segVars, vadVars, queueVars, timeVars, procVars,
                 extract_outcome, dequeued, callback_log, skipped,
                 total_chunks_skipped, pops_after_stop, recVars, callVars>>

CallbackReturns(t) == CallbackEnds(t, "returns")
CallbackRaises(t)  == CallbackEnds(t, "raises")

(* --------------------------- AudioRecorder ----------------------------- *)
\* The recorder's own start_time is read only by the log line of stop_recording
\* and by get_elapsed_time; it is left out.
\* the frames of one read, in samples (16-bit mono: two bytes a sample)
chunk_size == (frame_blocks * BlockBytes) \div 2

\* a start that reports recording whether the device opened or not
RecordingAfterOpen_Always(opened) == TRUE
\* start_recording, lines 157 and 175: is_recording after pyaudio.open
RecordingAfterOpen(opened) == opened

\* start_recording up to the stream being open, lines 126-159
\* a start_recording without its first test
StartReturnsEarly_Never(recording) == FALSE
\* start_recording, lines 126-128
StartReturnsEarly(recording) == recording

StartRecording ==
  /\ caller_pc = "idle"
  /\ IF StartReturnsEarly(is_recording)
     THEN \* "Recording already started"
          /\ LogCall("start_recording", "already_started")
          /\ UNCHANGED <<is_recording, stream, total_frames_recorded, caller_pc>>
     ELSE /\ FreeCaptures # {}
          /\ is_processing \/ FreeDispatchers # {}
          /\ \E opened \in BOOLEAN :
               IF opened
               THEN /\ stream' = OpenStream
                    /\ is_recording' = RecordingAfterOpen(opened)
                    /\ total_frames_recorded' = 0
                    /\ caller_pc' = "start_processing"
                    /\ LogCall("start_recording", "opened")
               ELSE \* pyaudio.open raises: is_recording = False, raise
                    /\ is_recording' = RecordingAfterOpen(opened)
                    /\ LogCall("start_recording", "raised")
                    /\ UNCHANGED <<stream, total_frames_recorded, caller_pc>>
  /\ UNCHANGED <<envVars, tuneVars, cap_faults, histVars, segVars, vadVars, queueVars, timeVars, procVars, dispVars,
                 recording_thread, cap_pc, joined>>

\* start_recording, line 162: buffer_manager.start_processing()
RecorderStartProcessing ==
  /\ caller_pc = "start_processing"
  /\ StartProcessingBody
  /\ caller_pc' = "spawn_capture"
  /\ UNCHANGED <<envVars, tuneVars, logVars, histVars, segVars, vadVars, queueVars, disp_chunk, processed_chunk,
                 extract_outcome, dequeued, callback_log, skipped, raised,
                 total_chunks_processed, total_chunks_skipped, recVars, joined>>

\* start_recording, lines 165-169: the capture thread starts
SpawnCapture ==
  /\ caller_pc = "spawn_capture"
  /\ recording_thread' = LowestOf(FreeCaptures)
  /\ cap_pc' = [cap_pc EXCEPT ![LowestOf(FreeCaptures)] = "test"]
  /\ cap_faults' = [cap_faults EXCEPT ![LowestOf(FreeCaptures)] = 0]
  /\ caller_pc' = "idle"
  /\ UNCHANGED <<envVars, tuneVars, last_call, histVars, segVars, vadVars, queueVars, timeVars, procVars, dispVars,
                 is_recording, stream, total_frames_recorded, joined>>

\* a stop_recording that goes straight to the dispatcher
AfterStopSignal_SkipsCapture(thread) == "stop_processing"
\* stop_recording, lines 186-188: what follows the stop signal
AfterStopSignal(thread) == IF thread # None THEN "join_capture" ELSE "close_stream"

\* a stop_recording without its first test
StopReturnsEarly_Never(recording) == FALSE
\* stop_recording, lines 180-182: return when recording has not started
StopReturnsEarly(recording) == ~recording

\* stop_recording, lines 180-184: the stop signal
StopRecording ==
  /\ caller_pc = "idle"
  /\ IF StopReturnsEarly(is_recording)
     THEN \* "Recording not started"
          UNCHANGED <<is_recording, caller_pc, joined>>
     ELSE /\ is_recording' = FALSE
          /\ joined' = {}
          /\ caller_pc' = AfterStopSignal(recording_thread)
  /\ LogCall("stop_recording", IF is_recording THEN "stopping" ELSE "not_started")
  /\ UNCHANGED <<envVars, tuneVars, cap_faults, histVars, segVars, vadVars, queueVars, timeVars, procVars, dispVars,
                 stream, total_frames_recorded, recording_thread, cap_pc>>

\* stop_recording, line 188: recording_thread.join(timeout=5.0)
JoinCapture ==
  /\ caller_pc = "join_capture"
  /\ \E timed_out \in BOOLEAN :
       JoinReturns(cap_pc[recording_thread] = "exited", timed_out)
  /\ joined' = joined \cup {"capture"}
  /\ caller_pc' = "close_stream"
  /\ UNCHANGED <<envVars, tuneVars, logVars, histVars, segVars, vadVars, queueVars, timeVars, procVars, dispVars,
                 recVars>>

\* stop_recording, lines 191-194: stop_stream(), close(), stream = None
CloseStream ==
  /\ caller_pc = "close_stream"
  /\ IF stream = None
     THEN /\ caller_pc' = "stop_processing"
          /\ UNCHANGED stream
     ELSE \E closed \in BOOLEAN :
            IF closed
            THEN /\ stream' = None
                 /\ caller_pc' = "stop_processing"
            ELSE \* the device raises: stop_recording ends here
                 /\ caller_pc' = "idle"
                 /\ UNCHANGED stream
  /\ UNCHANGED <<envVars, tuneVars, logVars, histVars, segVars, vadVars, queueVars, timeVars, procVars, dispVars,
                 is_recording, total_frames_recorded, recording_thread, cap_pc, joined>>

\* stop_recording, line 198: buffer_manager.stop_processing()
RecorderStopProcessing ==
  /\ caller_pc = "stop_processing"
  /\ StopProcessingBody
  /\ UNCHANGED <<envVars, tuneVars, logVars, histVars, previous_overlap, is_speaking,
                 silence_duration_ms, seg_pc, pending, buffer_lock, total_in, created,
                 queue_at_put, vadVars, queueVars, timeVars, disp_pc, disp_chunk,
                 processed_chunk, extract_outcome, dequeued, callback_log, skipped, raised,
                 total_chunks_processed, total_chunks_skipped, recVars>>

\* _recording_loop, line 209: the loop test
CaptureTest(c) ==
  /\ cap_pc[c] = "test"
  /\ cap_pc' = [cap_pc EXCEPT ![c] = IF is_recording THEN "read" ELSE "exited"]
  /\ UNCHANGED <<envVars, tuneVars, logVars, histVars, segVars, vadVars, queueVars, timeVars, procVars, dispVars,
                 is_recording, stream, total_frames_recorded, recording_thread, callVars>>

\* what stream.read can do: hand out a frame, or raise
ReadOutcomes == IF stream = None THEN {"raises"} ELSE {"frame", "raises"}

\* the audio the capture loops of one run read
CaptureBudget == IF alive_limit.dispatchers = 1 THEN MaxBlocks ELSE MaxPipelineBlocks

\* blocks the capture threads have read and not yet passed on
BlocksInHand == Cardinality({c \in Captures : cap_pc[c] = "add"}) * frame_blocks

\* a capture loop that any failure of a read ends
AfterReadFault_EndsLoop(recording) == "exited"
\* _recording_loop, lines 223-227: break when recording has stopped, otherwise
\* sleep 0.1 s and go back to the loop test
AfterReadFault(recording) == IF recording THEN "test" ELSE "exited"

\* the count of the read failures of thread c, kept in the runs that trace cap_faults
CountReadFault(c) ==
  IF "cap_faults" \in trace
  THEN /\ cap_faults[c] < MaxReadFaults
       /\ cap_faults' = [cap_faults EXCEPT ![c] = @ + 1]
  ELSE UNCHANGED cap_faults

\* _recording_loop, lines 212-217 and 223-227: stream.read
CaptureRead(c) ==
  /\ cap_pc[c] = "read"
  /\ \E outcome \in ReadOutcomes :
       IF outcome = "frame"
       THEN /\ total_in + BlocksInHand + frame_blocks <= CaptureBudget
            /\ total_frames_recorded' = total_frames_recorded + chunk_size
            /\ cap_pc' = [cap_pc EXCEPT ![c] = "add"]
            /\ UNCHANGED cap_faults
       ELSE \* except: break when recording has stopped, otherwise sleep and loop
            /\ cap_pc' = [cap_pc EXCEPT ![c] = AfterReadFault(is_recording)]
            /\ CountReadFault(c)
            /\ UNCHANGED total_frames_recorded
  /\ UNCHANGED <<envVars, tuneVars, last_call, histVars, segVars, vadVars, queueVars, timeVars, procVars, dispVars,
                 is_recording, stream, recording_thread, callVars>>

\* _recording_loop, line 221: buffer_manager.add_audio_data(audio_data)
CaptureAdd(c) ==
  /\ cap_pc[c] = "add"
  /\ AddAudioDataBy(c)
  /\ cap_pc' = IF seg_pc' = "idle" THEN [cap_pc EXCEPT ![c] = "test"] ELSE cap_pc
  /\ UNCHANGED <<is_recording, stream, total_frames_recorded, recording_thread>>

(* -------------------- VADProcessor called directly --------------------- *)
\* process_frame on one frame
VadProcessFrame ==
  /\ vad_calls < MaxVadCalls
  /\ \E detect \in Detections :
       LET r == ProcessFrame(vad, detect, frame_blocks * BlockBytes,
                             config.silence_threshold_ms)
       IN /\ vad' = r.state
          /\ vad_call' = [op |-> "process_frame", detect |-> detect,
                          input |-> << >>, result |-> r.result]
          /\ speech_seen' = SpeechSeenAfter(speech_seen, detect, r.result)
  /\ vad_calls' = vad_calls + 1
  /\ UNCHANGED <<envVars, tuneVars, logVars, histVars, segVars, queueVars, timeVars, procVars, dispVars, recVars,
                 callVars>>

\* extract_speech_segments on a clip of frame_blocks blocks
VadExtract ==
  /\ vad_calls < MaxVadCalls
  /\ LET audio_data == [i \in 1..frame_blocks |-> i]
     IN \E outcome \in ExtractOutcomes(Len(audio_data)) :
          vad_call' = [op |-> "extract_speech_segments", detect |-> outcome.kind,
                       input |-> audio_data,
                       result |-> ExtractSpeechSegments(audio_data, outcome)]
  /\ vad_calls' = vad_calls + 1
  /\ UNCHANGED <<envVars, tuneVars, logVars, histVars, segVars, vad, speech_seen, queueVars, timeVars, procVars,
                 dispVars, recVars, callVars>>

\* reset_state, called by any thread: no lock is taken
VadResetState ==
  /\ vad_calls < MaxVadCalls
  /\ vad' = ResetState(vad)
  /\ vad_call' = [op |-> "reset_state", detect |-> "none", input |-> << >>,
                  result |-> IF SILERO_VAD_AVAILABLE THEN "recreated" ELSE "none"]
  /\ speech_seen' = FALSE
  /\ vad_calls' = vad_calls + 1
  /\ UNCHANGED <<envVars, tuneVars, logVars, histVars, segVars, queueVars, timeVars, procVars, dispVars, recVars,
                 callVars>>

\* the levels set_aggressiveness is called with: the four of the table and one
\* on either side
Levels == (0 - 1)..4

\* set_aggressiveness, lines 173-193: is_speaking, silence_frames and
\* speech_frames are not assigned
StateAfterSetAggressiveness(v, level) == v

\* a set_aggressiveness that takes every level
LevelAccepted_Any(level) == TRUE
\* set_aggressiveness, line 176: 0 <= aggressiveness <= 3
LevelAccepted(level) == 0 <= level /\ level <= 3

\* set_aggressiveness, called by any thread: no lock is taken
VadSetAggressiveness ==
  /\ vad_calls < MaxVadCalls
  /\ \E level \in Levels :
       LET accepted == SILERO_VAD_AVAILABLE /\ LevelAccepted(level)
       IN /\ aggressiveness' = IF accepted THEN level ELSE aggressiveness
          /\ threshold' = IF accepted THEN ThresholdMap(level) ELSE threshold
          /\ vad' = StateAfterSetAggressiveness(vad, level)
          /\ vad_call' = [op |-> "set_aggressiveness", detect |-> "none",
                          input |-> <<level>>,
                          result |-> IF accepted THEN "recreated"
                                     ELSE IF SILERO_VAD_AVAILABLE THEN "rejected"
                                     ELSE "unavailable"]
          /\ speech_seen' = IF vad'.is_speaking THEN speech_seen ELSE FALSE
  /\ vad_calls' = vad_calls + 1
  /\ UNCHANGED <<envVars, logVars, histVars, segVars, queueVars, timeVars, procVars, dispVars,
                 recVars, callVars>>

(* ----------------------- AudioBufferManager.clear ----------------------- *)
\* nothing runs: no capture loop, no dispatcher loop, nobody inside add_audio_data
PipelineStopped ==
  /\ ~is_processing /\ ~is_recording
  /\ seg_pc = "idle"
  /\ \A t \in Dispatchers : disp_pc[t] \in {"none", "exited"}
  /\ \A c \in Captures : cap_pc[c] \in {"none", "exited"}

\* clear, lines 306-307: the buffer is emptied under buffer_lock
ClearBuffer ==
  /\ caller_pc = "idle"
  /\ buffer_lock = None
  /\ "last_clear" \in trace => last_clear.n < MaxClears
  /\ buffer' = << >>
  /\ caller_pc' = "clear_queue"
  /\ last_clear' = IF "last_clear" \in trace
                    THEN [last_clear EXCEPT !.stopped = PipelineStopped,
                                            !.total_in = total_in]
                    ELSE last_clear
  /\ UNCHANGED <<envVars, tuneVars, logVars, suppressed_end, previous_overlap, is_speaking,
                 silence_duration_ms, seg_pc, pending, buffer_lock, total_in, created,
                 queue_at_put, vadVars, queueVars, timeVars, procVars, dispVars,
                 recVars, joined>>

\* clear, lines 309-314: one turn of the loop that empties the queue
ClearDrain ==
  /\ caller_pc = "clear_queue"
  /\ IF chunk_queue = << >>
     THEN /\ caller_pc' = "clear_counters"
          /\ UNCHANGED <<chunk_queue, pops_since_put>>
     ELSE /\ chunk_queue' = QueueAfterGet(chunk_queue)
          /\ pops_since_put' = pops_since_put + 1
          /\ UNCHANGED caller_pc
  /\ UNCHANGED <<envVars, tuneVars, logVars, histVars, segVars, vadVars, enqueued, evicted,
                 timeVars, procVars, dispVars, recVars, joined>>

\* clear, lines 316-318: the counters and start_time
ClearReset ==
  /\ caller_pc = "clear_counters"
  /\ total_chunks_processed' = 0
  /\ total_chunks_skipped' = 0
  /\ start_time' = None
  /\ caller_pc' = "idle"
  /\ last_clear' = IF "last_clear" \in trace
                    THEN [n |-> last_clear.n + 1,
                          stopped |-> /\ last_clear.stopped /\ PipelineStopped
                                      /\ total_in = last_clear.total_in,
                          total_in |-> total_in, created |-> Len(created)]
                    ELSE last_clear
  /\ UNCHANGED <<envVars, tuneVars, logVars, suppressed_end, segVars, vadVars, queueVars, now,
                 procVars, disp_pc, disp_chunk, processed_chunk, extract_outcome,
                 dequeued, callback_log, skipped, raised, pops_after_stop, recVars,
                 joined>>

Clear == ClearBuffer \/ ClearDrain \/ ClearReset

(* --------------------- AudioBufferManager.get_stats --------------------- *)
\* get_stats, line 329: the call of get_buffer_size, which will ask for buffer_lock
GetStatsCall ==
  /\ caller_pc = "idle"
  /\ caller_pc' = "stats_buffer"
  /\ UNCHANGED <<envVars, tuneVars, logVars, histVars, segVars, vadVars, queueVars,
                 timeVars, procVars, dispVars, recVars, joined>>

\* get_buffer_size, lines 292-293: len(self.buffer) under buffer_lock
GetBufferSize ==
  /\ caller_pc = "stats_buffer"
  /\ buffer_lock = None
  /\ caller_pc' = "stats_queue"
  /\ UNCHANGED <<envVars, tuneVars, logVars, histVars, segVars, vadVars, queueVars,
                 timeVars, procVars, dispVars, recVars, joined>>

\* get_stats, lines 330-333: qsize(), the counters, the elapsed time
GetQueueSize ==
  /\ caller_pc = "stats_queue"
  /\ caller_pc' = "idle"
  /\ UNCHANGED <<envVars, tuneVars, logVars, histVars, segVars, vadVars, queueVars,
                 timeVars, procVars, dispVars, recVars, joined>>

GetStats == GetStatsCall \/ GetBufferSize \/ GetQueueSize

(* --------------------------- specifications ---------------------------- *)
\* one AudioBufferManager used directly
Next ==
  \/ AddAudioData
  \/ EvictOldest
  \/ PutAgain
  \/ StartProcessing
  \/ StopProcessing
  \/ JoinDispatcher
  \/ \E t \in Dispatchers : DispatcherCheck(t)
  \/ \E t \in Dispatchers : DispatcherGet(t)
  \/ \E t \in Dispatchers : DispatcherExtract(t)
  \/ \E t \in Dispatchers : DispatcherDeliver(t)
  \/ \E t \in Dispatchers : CallbackReturns(t)
  \/ \E t \in Dispatchers : CallbackRaises(t)

\* fixed mode: VAD not requested
FixedConfigs ==
  {c \in Configs : /\ ~c.vad_enabled
                   /\ c.min_chunk_sec = 1 /\ c.max_chunk_sec = 1
                   /\ c.silence_threshold_ms = 500}

\* dynamic mode: VAD requested and loaded
DynamicConfigs ==
  {c \in Configs : c.vad_enabled /\ c.chunk_duration_sec = 1 /\ c.queue_maxsize = 1}

Init == InitWith(FixedConfigs \cup DynamicConfigs, BOOLEAN)
Spec == Init /\ [][Next]_vars

InitFixed == InitWith(FixedConfigs, {TRUE})
SpecFixed == InitFixed /\ [][Next]_vars

InitDynamic == InitWith(DynamicConfigs, {TRUE})
SpecDynamic == InitDynamic /\ [][Next]_vars

\* the VADProcessor alone, loaded or not
InitVad == InitWith(DynamicConfigs, BOOLEAN)
NextVad == VadProcessFrame \/ VadExtract \/ VadResetState \/ VadSetAggressiveness
SpecVad == InitVad /\ [][NextVad]_vars

\* dynamic mode with the detector's outcome of every call recorded
ErrorConfigs ==
  {c \in DynamicConfigs : /\ c.min_chunk_sec = 1 /\ c.max_chunk_sec = 2
                          /\ c.chunk_overlap_sec = 0 /\ c.silence_threshold_ms = 500}

InitErrors ==
  InitState(ErrorConfigs, {TRUE}, {1}, {"any"}, OneThread,
            {"vad_call", "extract_outcome"}, MaxClock)
SpecErrors == InitErrors /\ [][Next]_vars

\* the scenario: 16 kHz mono, chunks of 5 to 30 s, 2 s of overlap, 500 ms of
\* silence end an utterance; frames of one block; the other arguments at
\* their defaults
ScenarioConfig ==
  [chunk_duration_sec   |-> 30,
   chunk_overlap_sec    |-> 2,
   min_chunk_sec        |-> 5,
   max_chunk_sec        |-> 30,
   silence_threshold_ms |-> 500,
   queue_maxsize        |-> 20,
   vad_enabled          |-> TRUE]

InitScenario ==
  InitState({ScenarioConfig}, {TRUE}, {1}, {"scenario"}, OneThread, {"raised"}, MaxClock)

NextScenario ==
  \/ AddAudioData
  \/ StartProcessing
  \/ StopProcessing
  \/ JoinDispatcher
  \/ \E t \in Dispatchers : DispatcherCheck(t)
  \/ \E t \in Dispatchers : DispatcherGet(t)
  \/ \E t \in Dispatchers : DispatcherExtract(t)
  \/ \E t \in Dispatchers : DispatcherDeliver(t)
  \/ \E t \in Dispatchers : CallbackReturns(t)
  \/ \E t \in Dispatchers : CallbackRaises(t)

SpecScenario == InitScenario /\ [][NextScenario]_vars

\* the recorder driving the manager, as the application does: VAD on, a queue
\* of one chunk, frames of one chunk, threads a timed-out join left behind
PipelineConfigs ==
  {c \in DynamicConfigs : /\ c.min_chunk_sec = 1 /\ c.max_chunk_sec = 1
                          /\ c.chunk_overlap_sec = 0 /\ c.silence_threshold_ms = 500}

\* the threads a run keeps alive next to each other when a join has timed out
TwoDispatchers == [dispatchers |-> MaxDispatchers, captures |-> 1]

InitPipeline ==
  InitState(PipelineConfigs, {TRUE}, {2}, {"speech"}, TwoDispatchers,
            {"skipped", "raised", "pops_after_stop"}, MaxClock)

\* the same with one dispatcher thread alive at a time
InitCapture ==
  InitState(PipelineConfigs, {TRUE}, {2}, {"speech"}, OneThread, {}, MaxClock)

DispatcherStep(t) ==
  \/ DispatcherCheck(t)
  \/ DispatcherGet(t)
  \/ DispatcherExtract(t)
  \/ DispatcherDeliver(t)
  \/ CallbackReturns(t)
  \/ CallbackRaises(t)

\* the steps of the thread that called stop_recording
StopStep == JoinCapture \/ CloseStream \/ RecorderStopProcessing \/ JoinDispatcher

\* the steps of add_audio_data after its first put_nowait found the queue full
SegmenterStep == EvictOldest \/ PutAgain

NextPipeline ==
  \/ StartRecording
  \/ RecorderStartProcessing
  \/ SpawnCapture
  \/ StopRecording
  \/ StopStep
  \/ \E c \in Captures : CaptureTest(c)
  \/ \E c \in Captures : CaptureRead(c)
  \/ \E c \in Captures : CaptureAdd(c)
  \/ SegmenterStep
  \/ \E t \in Dispatchers : DispatcherStep(t)

SpecPipeline == InitPipeline /\ [][NextPipeline]_vars
SpecCapture  == InitCapture /\ [][NextPipeline]_vars

\* the caller of stop_recording keeps running; no other thread has to
SpecStopFair == InitCapture /\ [][NextPipeline]_vars /\ WF_caller_pc(StopStep)

\* one dispatcher thread at a time (a start waits for the old thread's exit),
\* a callback that returns, and a dispatcher thread that keeps running
InitOneDispatcher ==
  InitState(PipelineConfigs, {TRUE}, {2}, {"speech"}, OneThread, {"pops_after_stop"}, MaxClock)
DispatcherRuns(t) ==
  \/ DispatcherCheck(t) \/ DispatcherGet(t) \/ DispatcherExtract(t)
  \/ DispatcherDeliver(t) \/ CallbackReturns(t)
SpecOneDispatcher ==
  InitOneDispatcher /\ [][NextPipeline]_vars /\ \A t \in Dispatchers : WF_disp_pc(DispatcherRuns(t))

\* the recorder and the manager's own start and stop called from outside,
\* with the public calls and the read failures recorded
InitRecorder ==
  InitState(PipelineConfigs, {TRUE}, {2}, {"speech"}, OneThread,
            {"last_call", "cap_faults"}, MaxClock)

NextRecorder ==
  \/ NextPipeline
  \/ StartProcessing
  \/ StopProcessing

SpecRecorder == InitRecorder /\ [][NextRecorder]_vars

\* one dispatcher thread at a time, capture threads a timed-out join left behind
TwoCaptures == [dispatchers |-> 1, captures |-> MaxCaptures]

InitTwoCaptures ==
  InitState(PipelineConfigs, {TRUE}, {2}, {"speech"}, TwoCaptures, {}, MaxClock)

SpecTwoCaptures == InitTwoCaptures /\ [][NextPipeline]_vars

\* the manager in dynamic mode with a queue of one chunk, fed by one thread
\* while other threads call clear and the VADProcessor's reset_state and
\* set_aggressiveness
LockConfigs ==
  {c \in DynamicConfigs : /\ c.min_chunk_sec = 1 /\ c.max_chunk_sec = 1
                          /\ c.chunk_overlap_sec = 1 /\ c.silence_threshold_ms = 500}

InitLock == InitState(LockConfigs, {TRUE}, {2}, {"any"}, OneThread, {}, 0)

NextLock ==
  \/ AddAudioData
  \/ SegmenterStep
  \/ Clear
  \/ VadResetState
  \/ VadSetAggressiveness

SpecLock == InitLock /\ [][NextLock]_vars

\* AudioBufferManager() with every argument at its default
DefaultConfig ==
  [chunk_duration_sec   |-> 30,
   chunk_overlap_sec    |-> 5,
   min_chunk_sec        |-> 5,
   max_chunk_sec        |-> 30,
   silence_threshold_ms |-> 500,
   queue_maxsize        |-> 20,
   vad_enabled          |-> FALSE]

\* managers as the constructor builds them: the default one and the fixed-mode ones
InitConstructed == InitWith({DefaultConfig} \cup FixedConfigs, {TRUE})
SpecConstructed == InitConstructed /\ [][Next]_vars

\* fixed mode with an overlap of 2 s and chunks of 1 s: every buffer that is
\* cut is shorter than the overlap
ShortConfigs ==
  {[chunk_duration_sec   |-> 1,
    chunk_overlap_sec    |-> 2,
    min_chunk_sec        |-> 1,
    max_chunk_sec        |-> 1,
    silence_threshold_ms |-> 500,
    queue_maxsize        |-> q,
    vad_enabled          |-> FALSE] : q \in 1..MaxQueue}

InitShort == InitWith(ShortConfigs, {TRUE})
SpecShort == InitShort /\ [][Next]_vars

\* dynamic mode with the speech_end results that cut nothing recorded
InitSuppressed ==
  InitState(DynamicConfigs, {TRUE}, 1..MaxFrameBlocks, {"any"}, OneThread,
            {"suppressed_end"}, MaxClock)
SpecSuppressed == InitSuppressed /\ [][Next]_vars

\* one AudioBufferManager used directly, clear() included
InitClear ==
  InitState(FixedConfigs \cup LockConfigs, {TRUE}, {2}, {"any"}, OneThread,
            {"last_clear"}, 0)
NextClear == Next \/ Clear
SpecClear == InitClear /\ [][NextClear]_vars

\* one AudioBufferManager used directly, with the timestamp of every chunk recorded
InitTimestamps ==
  InitState(FixedConfigs, {TRUE}, {2}, {"any"}, OneThread, {"timestamp"}, 0)
SpecTimestamps == InitTimestamps /\ [][Next]_vars

\* one AudioBufferManager used directly, with the fate of every dequeued chunk recorded
InitAccounting ==
  InitState(FixedConfigs \cup LockConfigs, {TRUE}, {2}, {"any"}, OneThread,
            {"raised", "skipped"}, 0)
SpecAccounting == InitAccounting /\ [][Next]_vars

\* the recorder with chunks of two frames, so that a stop finds audio in the buffer
RemainderConfigs ==
  {c \in DynamicConfigs : /\ c.min_chunk_sec = 1 /\ c.max_chunk_sec = 1
                          /\ c.chunk_overlap_sec = 1 /\ c.silence_threshold_ms = 500}
InitRemainder ==
  InitState(RemainderConfigs, {TRUE}, {1}, {"speech"}, OneThread, {"last_call"}, MaxClock)
SpecRemainder == InitRemainder /\ [][NextRecorder]_vars

\* the recorder running while another thread calls get_stats, clear and stop_recording
InitCallers ==
  InitState(PipelineConfigs, {TRUE}, {2}, {"speech"}, OneThread, {}, MaxClock)
NextCallers == NextPipeline \/ Clear \/ GetStats
SpecCallers == InitCallers /\ [][NextCallers]_vars

\* the recorder and the manager's own start and stop called from outside, with
\* the public calls recorded and room for a second capture thread
InitStarts ==
  InitState(PipelineConfigs, {TRUE}, {2}, {"speech"}, TwoCaptures, {"last_call"}, MaxClock)
SpecStarts == InitStarts /\ [][NextRecorder]_vars

(* ------------------------------ history -------------------------------- *)
\* a created chunk without its carried-over overlap prefix, and that prefix
Body(c) == SubSeq(c.chunk, c.overlap_len + 1, Len(c.chunk))
Prefix(c) == SubSeq(c.chunk, 1, c.overlap_len)

RECURSIVE SumChunkBytes(_)
SumChunkBytes(cs) ==
  IF cs = << >> THEN 0 ELSE LenBytes(Head(cs).chunk) + SumChunkBytes(Tail(cs))

RECURSIVE ConcatBodies(_)
ConcatBodies(cs) ==
  IF cs = << >> THEN << >> ELSE Body(Head(cs)) \o ConcatBodies(Tail(cs))

\* the input stream so far
InputStream == [i \in 1..total_in |-> i]

LastBytes(s, n) == Slice(s, LenBytes(s) - n, LenBytes(s))

StrictlyIncreasing(s) == \A i \in 1..Len(s) - 1 : s[i] < s[i + 1]

(* ------------------------------ claims --------------------------------- *)

\* C1: fixed mode with chunk_overlap_sec = 0: the lengths of all chunks pushed
\* plus the length of the buffer equal the number of input bytes.
C1_NoByteTwiceOrLost ==
  (~vad_enabled /\ config.chunk_overlap_sec = 0)
    => SumChunkBytes(created) + LenBytes(buffer) = total_in * BlockBytes

\* C2: fixed mode with chunk_overlap_sec = 0: every chunk pushed has exactly
\* chunk_size_bytes bytes, for every frame size, and only a remainder shorter
\* than chunk_size_bytes stays in the buffer.
C2_ChunksOfExactSize ==
  (~vad_enabled /\ config.chunk_overlap_sec = 0)
    => /\ \A k \in 1..Len(created) : LenBytes(created[k].chunk) = chunk_size_bytes
       /\ seg_pc = "idle" => LenBytes(buffer) < chunk_size_bytes

\* C3: for consecutive chunks k and k+1 where the body of chunk k is at least
\* overlap_size_bytes long, chunk k+1 is exactly the last overlap_size_bytes
\* bytes of the body of chunk k followed by the body of chunk k+1.
C3_OverlapIsTailOfPreviousBody ==
  \A k \in 1..Len(created) - 1 :
    LenBytes(Body(created[k])) >= overlap_size_bytes
      => /\ Prefix(created[k + 1]) = LastBytes(Body(created[k]), overlap_size_bytes)
         /\ LenBytes(Prefix(created[k + 1])) = overlap_size_bytes

\* C4: dynamic mode: whenever add_audio_data has returned, the buffer is
\* shorter than max_chunk_size_bytes (a forced cut happens no later than the
\* frame on which the buffer reaches max_chunk_sec, speech_end or not).
C4_ForcedCutBoundsBuffer ==
  (vad_enabled /\ seg_pc = "idle") => LenBytes(buffer) < max_chunk_size_bytes

\* a forced cut has just happened on a frame that was not speech_end
C4_Witness ==
  /\ vad_enabled /\ seg_pc = "idle"
  /\ buffer = << >> /\ Len(created) >= 1
  /\ vad.is_speaking
  /\ LenBytes(Body(created[Len(created)])) >= max_chunk_size_bytes

\* C5: dynamic mode: a frame on which process_frame returns speech_end while
\* the buffer including that frame is shorter than min_chunk_size_bytes
\* creates no chunk: the buffer keeps all its bytes and the queue is unchanged.
C5_NoCutBelowMinimum ==
  [][(/\ vad_enabled
      /\ total_in' # total_in
      /\ vad.is_speaking /\ ~vad'.is_speaking
      /\ LenBytes(buffer) + frame_blocks * BlockBytes < min_chunk_size_bytes)
     => (/\ created' = created
         /\ chunk_queue' = chunk_queue
         /\ Len(buffer') = Len(buffer) + frame_blocks)]_vars

\* C6: with no dispatcher pop in between, a push onto a full queue leaves the
\* queue at queue_maxsize, without its previous oldest element, with the
\* other elements unchanged and in order, and with the new chunk as the newest.
C6_DropOldest ==
  (/\ seg_pc = "idle" /\ Len(created) >= 1
   /\ QueueFull(queue_at_put) /\ pops_since_put = 0)
    => /\ Len(chunk_queue) = config.queue_maxsize
       /\ SubSeq(chunk_queue, 1, Len(chunk_queue) - 1) = Tail(queue_at_put)
       /\ chunk_queue[Len(chunk_queue)].n = Len(created)
       /\ chunk_queue[Len(chunk_queue)].chunk = created[Len(created)].chunk
       /\ \A i \in 1..Len(chunk_queue) : chunk_queue[i].n # Head(queue_at_put).n

\* a queue of two chunks has taken a third
C6_Witness ==
  /\ seg_pc = "idle" /\ Len(created) >= 3
  /\ QueueFull(queue_at_put) /\ pops_since_put = 0
  /\ config.queue_maxsize = 2
  /\ Head(queue_at_put).n \in evicted

\* C7: under every interleaving with the dispatcher's pop, every chunk
\* _create_chunk builds is put on the queue.
C7_EveryCreatedChunkEnqueued ==
  seg_pc = "idle" => \A n \in 1..Len(created) : n \in enqueued

\* C8: dynamic mode: the bodies of all created chunks, in production order,
\* followed by the buffer are the input frames in arrival order.
C8_NoAudioLost ==
  vad_enabled => ConcatBodies(created) \o buffer = InputStream

\* a chunk has been cut, its tail is carried over, and audio is buffered again
C8_Witness ==
  /\ vad_enabled /\ Len(created) >= 1 /\ buffer # << >>
  /\ previous_overlap # << >>
  /\ Len(Body(created[1])) < total_in

\* C9: any two chunks the dispatcher dequeues are dequeued, and passed to the
\* callback, in their production order.
C9_SurvivorsInProductionOrder ==
  StrictlyIncreasing(dequeued) /\ StrictlyIncreasing(callback_log)

\* a chunk was evicted between two chunks that reached the callback
C9_Witness ==
  /\ Len(callback_log) >= 2
  /\ \E n \in evicted : callback_log[1] < n /\ n < callback_log[2]

\* C10: with VAD enabled, a dequeued chunk whose extraction result is empty or
\* shorter than sample_rate * 2 bytes adds exactly 1 to total_chunks_skipped,
\* leaves total_chunks_processed unchanged and does not reach on_chunk_ready.
C10_SkipAccounting ==
  [][\A t \in Dispatchers :
       (/\ vad_enabled
        /\ disp_pc[t] = "deliver" /\ disp_pc'[t] # "deliver"
        /\ (processed_chunk[t] = << >> \/ LenBytes(processed_chunk[t]) < sample_rate * 2))
       => (/\ total_chunks_skipped' = total_chunks_skipped + 1
           /\ total_chunks_processed' = total_chunks_processed
           /\ callback_log' = callback_log)]_vars

\* a chunk with a short, non-empty extraction result has been skipped after
\* another chunk was delivered
C10_Witness ==
  /\ vad_enabled
  /\ total_chunks_skipped = 1 /\ total_chunks_processed = 1
  /\ Len(dequeued) = 2 /\ callback_log = <<1>>
  /\ disp_pc[1] = "check"



\* C11: over every sequence of starts and stops, a join that timed out
\* included, on_chunk_ready is called at most once for a chunk, only for
\* chunks the segmenter created and the dispatcher dequeued, and never for a
\* chunk that was skipped or evicted.
C11_CallbackAtMostOncePerChunk ==
  /\ \A i, j \in 1..Len(callback_log) : i # j => callback_log[i] # callback_log[j]
  /\ \A i \in 1..Len(callback_log) :
       /\ callback_log[i] \in 1..Len(created)
       /\ \E k \in 1..Len(dequeued) : dequeued[k] = callback_log[i]
       /\ callback_log[i] \notin skipped
       /\ callback_log[i] \notin evicted

\* a thread that outlived a timed-out join and the thread of the next start
\* are both inside on_chunk_ready
C11_Witness ==
  /\ disp_pc[1] = "callback" /\ disp_pc[2] = "callback"
  /\ Len(callback_log) = 2
  /\ is_processing

\* the chunks a dispatcher thread has dequeued and not yet skipped or passed on
InHand == {disp_chunk[t].n : t \in {u \in Dispatchers : disp_pc[u] \in {"extract", "deliver"}}}

\* C12: when on_chunk_ready raises for a chunk, the loop goes back to its loop
\* test, total_chunks_processed does not count that chunk, and every chunk
\* dequeued and not skipped, before or after the failure, is passed to the
\* callback.
C12_CallbackFailureIsolated ==
  /\ [][\A t \in Dispatchers :
          (disp_pc[t] = "callback" /\ disp_pc'[t] # "callback" /\ raised' # raised)
          => (/\ disp_pc'[t] = "check"
              /\ total_chunks_processed' = total_chunks_processed)]_vars
  /\ [](/\ total_chunks_processed + Cardinality(raised)
             + Cardinality({t \in Dispatchers : disp_pc[t] = "callback"})
           = Len(callback_log)
        /\ \A k \in 1..Len(dequeued) :
             \/ dequeued[k] \in InHand
             \/ dequeued[k] \in skipped
             \/ \E i \in 1..Len(callback_log) : callback_log[i] = dequeued[k])

\* the callback raised for chunk 1 and the same thread then delivered chunk 2
C12_Witness ==
  /\ raised = {1}
  /\ callback_log = <<1, 2>>
  /\ total_chunks_processed = 1
  /\ disp_pc[1] = "check" /\ disp_pc[2] = "none"

\* the length of the frames of this run, as process_frame computes it
FrameDurationMs == (frame_blocks * BlockBytes * 1000) \div (sample_rate * 2)

\* a step that is one direct call of process_frame
IsProcessFrameCall == vad_calls' = vad_calls + 1 /\ vad_call'.op = "process_frame"

\* C13: process_frame returns speech_end exactly on a non-speech frame that
\* brings silence_frames * frame_duration_ms to silence_threshold_ms or more
\* while is_speaking is true; that call sets is_speaking to false, and it only
\* happens when a frame was classified speech since __init__, reset_state or
\* the previous speech_end (so at most once between two speech frames).
C13_SpeechEndOnThreshold ==
  [][IsProcessFrameCall =>
       /\ (vad_call'.result = "speech_end")
            <=> (/\ SILERO_VAD_AVAILABLE
                 /\ vad_call'.detect = "none"
                 /\ vad.is_speaking
                 /\ (vad.silence_frames + 1) * FrameDurationMs >= config.silence_threshold_ms)
       /\ (vad_call'.result = "speech_end") => (~vad'.is_speaking /\ speech_seen /\ ~speech_seen')]_vars

\* speech_end came on the second silent frame of 500 ms with a threshold of
\* 1000 ms
C13_Witness ==
  /\ vad_call.op = "process_frame" /\ vad_call.result = "speech_end"
  /\ frame_blocks = 1 /\ config.silence_threshold_ms = 1000
  /\ vad.silence_frames = 2 /\ ~vad.is_speaking

\* C14: when the model did not load, process_frame returns speech for every
\* frame, extract_speech_segments returns its input unchanged, and neither
\* call changes the state of the VADProcessor.
C14_FailOpenWhenUnavailable ==
  [][(~SILERO_VAD_AVAILABLE /\ vad_calls' = vad_calls + 1
      /\ vad_call'.op \in {"process_frame", "extract_speech_segments"})
     => /\ vad_call'.op = "process_frame" => vad_call'.result = "speech"
        /\ vad_call'.op = "extract_speech_segments" => vad_call'.result = vad_call'.input
        /\ vad' = vad]_vars

\* without the model, a clip of several blocks came back whole after frames
\* had been passed to process_frame
C14_Witness ==
  /\ ~SILERO_VAD_AVAILABLE
  /\ vad_calls >= 2
  /\ vad_call.op = "extract_speech_segments"
  /\ Len(vad_call.input) >= 2 /\ vad_call.result = vad_call.input
  /\ vad = VadInit

\* C15: a detector failure inside process_frame makes the frame count as
\* speech, leaves the VADProcessor as it was (so later frames are classified
\* as if the call had not happened), and add_audio_data goes on with the frame
\* appended to the buffer; a detector failure inside extract_speech_segments
\* hands the dispatcher the original chunk and the loop goes on to deliver it.
C15_DetectorErrorsAbsorbed ==
  /\ [][(vad_enabled /\ total_in' # total_in /\ vad_call'.detect = "error")
        => /\ vad_call'.result = "speech"
           /\ vad' = vad
           /\ is_speaking'
           /\ seg_pc' \in {"idle", "evict"}
           /\ ConcatBodies(created') \o buffer' = [i \in 1..total_in' |-> i]]_vars
  /\ [][\A t \in Dispatchers :
          (disp_pc[t] = "extract" /\ disp_pc'[t] # "extract" /\ extract_outcome'[t] = "error")
          => /\ processed_chunk'[t] = disp_chunk[t].chunk
             /\ disp_pc'[t] = "deliver"]_vars

\* the detector failed on the last frame while the dispatcher holds a chunk
\* whose extraction failed too
C15_Witness ==
  /\ vad_call.op = "process_frame" /\ vad_call.detect = "error"
  /\ total_in >= 3 /\ buffer # << >>
  /\ disp_pc[1] = "deliver" /\ extract_outcome[1] = "error"
  /\ processed_chunk[1] = disp_chunk[1].chunk

\* no dispatcher thread is between its pop and the end of the iteration
NoChunkInFlight == \A t \in Dispatchers : disp_pc[t] \in {"none", "check", "get", "exited"}

\* C16: in the scenario (20 s of speech, then silence, frames of 500 ms) no
\* chunk exists before the first silent frame; that frame, at 20.5 s of
\* buffered audio, cuts the one and only chunk, by speech_end; and once the
\* dispatcher has handled the chunk with a callback that returned,
\* total_chunks_processed = 1 and total_chunks_skipped = 0.
C16_Scenario ==
  feed = "scenario" =>
    /\ total_in <= ScenarioSpeechBlocks => created = << >>
    /\ total_in > ScenarioSpeechBlocks =>
         /\ Len(created) = 1
         /\ created[1].cause = "speech_end"
         /\ created[1].chunk = [i \in 1..ScenarioSpeechBlocks + 1 |-> i]
         /\ LenBytes(created[1].chunk) * 1000 = 20500 * 2 * sample_rate
    /\ (dequeued = <<1>> /\ NoChunkInFlight /\ raised = {}) =>
         /\ total_chunks_processed = 1
         /\ total_chunks_skipped = 0
    /\ total_chunks_skipped = 0 /\ total_chunks_processed <= 1

\* all frames fed, processing stopped, the chunk delivered, the rest of the
\* silence still in the buffer
C16_Witness ==
  /\ feed = "scenario"
  /\ total_in = ScenarioSpeechBlocks + ScenarioSilenceBlocks
  /\ ~is_processing /\ disp_pc[1] = "exited" /\ caller_pc = "idle"
  /\ callback_log = <<1>> /\ total_chunks_processed = 1
  /\ Len(buffer) = ScenarioSilenceBlocks - 1
  /\ chunk_queue = << >>

\* C17: add_audio_data never waits for the dispatcher or the callback: a
\* capture thread that has a frame enters as soon as no other caller holds
\* buffer_lock, and inside, each of its queue operations can be taken at once,
\* whatever the dispatcher is doing and however full the queue is; buffer_lock
\* is held only by a thread inside add_audio_data, and no step of a dispatcher
\* thread touches the lock, the buffer or the segmenter's position.
C17_CaptureNeverWaits ==
  /\ [](/\ (seg_pc = "idle") <=> (buffer_lock = None)
        /\ buffer_lock # None => (buffer_lock \in Captures /\ cap_pc[buffer_lock] = "add")
        /\ \A c \in Captures :
             (cap_pc[c] = "add" /\ buffer_lock = None) => ENABLED CaptureAdd(c)
        /\ seg_pc # "idle" => ENABLED SegmenterStep)
  /\ [][disp_pc' # disp_pc
        => UNCHANGED <<buffer_lock, seg_pc, buffer, previous_overlap>>]_vars

\* with the dispatcher inside a callback for chunk 1 and chunk 2 filling the
\* queue, add_audio_data has evicted chunk 2 and queued chunk 3
C17_Witness ==
  /\ disp_pc[1] = "callback" /\ callback_log = <<1>>
  /\ seg_pc = "idle" /\ evicted = {2}
  /\ Len(chunk_queue) = 1 /\ chunk_queue[1].n = 3
  /\ cap_pc[1] = "test"

\* C18: the step that clears is_processing is taken with is_recording already
\* false, the join on the capture thread attempted and the stream closed; and
\* while stop_processing waits for the dispatcher, is_recording is false.
C18_TwoPhaseStop ==
  /\ [][(is_processing /\ ~is_processing')
        => /\ ~is_recording
           /\ recording_thread # None => "capture" \in joined
           /\ stream = None]_vars
  /\ [](caller_pc \in {"stop_processing", "join_dispatcher"} => ~is_recording /\ stream = None)

\* stop_recording waits for the dispatcher after its join on a capture thread
\* that is still blocked in stream.read has timed out
C18_Witness ==
  /\ caller_pc = "join_dispatcher"
  /\ ~is_processing /\ ~is_recording /\ stream = None
  /\ "capture" \in joined
  /\ cap_pc[recording_thread] = "read"

\* the caller is inside stop_recording, after the stop signal
InStopRecording ==
  caller_pc \in {"join_capture", "close_stream", "stop_processing", "join_dispatcher"}

\* C19: stop_recording, once it has given the stop signal, can always take its
\* next step and returns, whatever the capture thread and the dispatcher
\* thread do (no step of theirs is assumed to happen).
C19_StopRecordingReturns ==
  /\ [](InStopRecording => ENABLED StopStep)
  /\ InStopRecording ~> (caller_pc = "idle")

\* stop_recording has returned while the capture thread is still inside
\* stream.read and the dispatcher thread inside on_chunk_ready
C19_Witness ==
  /\ caller_pc = "idle" /\ ~is_recording /\ ~is_processing
  /\ stream = None
  /\ cap_pc[1] = "read" /\ disp_pc[1] = "callback"

\* C20: a dispatcher thread that was running when is_processing was set to
\* false dequeues at most one chunk after that, and at its next loop test it
\* leaves the loop, leaving the queue as it is.
C20_DispatcherStopSemantics ==
  /\ [](\A t \in Dispatchers : pops_after_stop[t] = None \/ pops_after_stop[t] <= 1)
  /\ [][\A t \in Dispatchers :
          (pops_after_stop[t] # None /\ disp_pc[t] = "check" /\ disp_pc'[t] # "check")
            => (disp_pc'[t] = "exited" /\ chunk_queue' = chunk_queue)]_vars

\* the statement of C20 where no second loop can be started: it holds under
\* SpecOneDispatcher, together with the exit of every stopped thread
C20_WithOneLoop ==
  /\ C20_DispatcherStopSemantics
  /\ \A t \in Dispatchers : (pops_after_stop[t] # None) ~> (disp_pc[t] = "exited")

\* everything but the record of the public calls
AllButLastCall ==
  <<envVars, segVars, vadVars, queueVars, timeVars, procVars, dispVars, recVars,
    callVars, tuneVars, cap_faults, histVars>>

\* C21: stop_recording called while is_recording is false, and stop_processing
\* called while is_processing is false, return at once and change nothing: no
\* join, no close of the stream, flags, buffer, queue and counters as before.
C21_StopIsIdempotent ==
  [][(/\ last_call'.n # last_call.n
      /\ \/ last_call'.op = "stop_recording" /\ ~is_recording
         \/ last_call'.op = "stop_processing" /\ ~is_processing)
       => /\ last_call'.outcome \in {"not_started", "not_processing"}
          /\ UNCHANGED AllButLastCall]_vars

\* stop_recording has returned at its first test although the stream is still
\* open and the dispatcher still running (the close of the stop before it raised)
C21_Witness ==
  /\ last_call.op = "stop_recording" /\ last_call.outcome = "not_started"
  /\ stream = OpenStream /\ is_processing /\ ~is_recording
  /\ caller_pc = "idle"

\* C22: a start_recording whose pyaudio.open raises leaves is_recording false,
\* starts no capture thread and does not start the dispatcher.
C22_FailedStartLeavesStopped ==
  [][(/\ last_call'.n # last_call.n
      /\ last_call'.op = "start_recording"
      /\ last_call'.outcome = "raised")
       => /\ ~is_recording'
          /\ UNCHANGED <<cap_pc, recording_thread, procVars, disp_pc, stream, caller_pc>>]_vars

\* a start has failed after an earlier recording was made and stopped
C22_Witness ==
  /\ last_call.op = "start_recording" /\ last_call.outcome = "raised"
  /\ total_in > 0
  /\ ~is_recording /\ ~is_processing /\ caller_pc = "idle"
  /\ \A c \in Captures : cap_pc[c] \in {"none", "exited"}

\* C23: a stream.read that raises while is_recording is true sends the capture
\* loop back to its loop test, from where it reads again; the loop ends only
\* in a step that finds is_recording false.
C23_ReadFaultsDoNotEndCapture ==
  [][\A c \in Captures :
       /\ (cap_pc[c] # "exited" /\ cap_pc'[c] = "exited") => ~is_recording
       /\ (cap_faults'[c] > cap_faults[c] /\ is_recording) => cap_pc'[c] = "test"
       /\ (cap_pc[c] = "test" /\ cap_pc'[c] # "test" /\ is_recording) => cap_pc'[c] = "read"]_vars

\* a capture thread has read a frame after a read of its own had failed
C23_Witness ==
  \E c \in Captures : cap_faults[c] >= 1 /\ cap_pc[c] = "add" /\ is_recording

\* the _process_chunks loops and the _recording_loop loops that are running
LiveDispatchers == {t \in Dispatchers : disp_pc[t] \notin {"none", "exited"}}
LiveCaptures    == {c \in Captures : cap_pc[c] \notin {"none", "exited"}}

\* C24: whatever start and stop calls have been made, at most one dispatcher
\* loop runs while is_processing lets loops run, and at most one capture loop
\* while is_recording does.
C24_SingleProducerSingleConsumer ==
  /\ is_processing => Cardinality(LiveDispatchers) <= 1
  /\ is_recording => Cardinality(LiveCaptures) <= 1

\* what buffer_lock is there to protect
LockedState == <<buffer, previous_overlap, is_speaking, silence_duration_ms, vad>>

\* C25: while a thread is inside "with self.buffer_lock", no step of another
\* thread changes the buffer, the carried overlap or the speech state, and no
\* other thread replaces the classifier's iterator.
C25_LockDiscipline ==
  [][buffer_lock # None
       => /\ UNCHANGED LockedState
          /\ vad_calls' # vad_calls => vad_call'.result # "recreated"]_vars

\* a set_aggressiveness that was accepted: the classifier loaded, the level in 0..3
AcceptedSetAggressiveness(call) ==
  call.op = "set_aggressiveness" /\ call.result = "recreated"

\* C26: an accepted set_aggressiveness leaves the classifier in the state
\* reset_state leaves it in, and a silence frame that follows it at once is
\* not reported as speech_end.
C26_SetAggressivenessResets ==
  /\ [][(vad_calls' # vad_calls /\ AcceptedSetAggressiveness(vad_call'))
          => vad' = ResetState(vad)]_vars
  /\ [][(/\ AcceptedSetAggressiveness(vad_call)
         /\ vad_calls' # vad_calls
         /\ vad_call'.op = "process_frame" /\ vad_call'.detect = "none")
          => vad_call'.result # "speech_end"]_vars

\* C27: the arguments every constructed manager holds satisfy
\* min_chunk_sec <= max_chunk_sec and chunk_overlap_sec < min_chunk_sec.
C27_ConfigurationInvariant ==
  /\ config.min_chunk_sec <= config.max_chunk_sec
  /\ config.chunk_overlap_sec < config.min_chunk_sec

\* the body of chunk k is shorter than a positive overlap_size_bytes
ShortBody(k) ==
  overlap_size_bytes > 0 /\ LenBytes(Body(created[k])) < overlap_size_bytes

\* C28: when the buffer that is cut is shorter than overlap_size_bytes, all of
\* it is carried: the next chunk starts with exactly the body of this one,
\* and with nothing of the chunks before it.
C28_ShortBufferOverlap ==
  /\ \A k \in 1..Len(created) - 1 :
       ShortBody(k) => Prefix(created[k + 1]) = Body(created[k])
  /\ (Len(created) > 0 /\ ShortBody(Len(created)))
       => previous_overlap = Body(created[Len(created)])

\* three chunks: the second had a prefix of its own and a short body, and the
\* third starts with that body alone
C28_Witness ==
  /\ Len(created) >= 3
  /\ ShortBody(2) /\ Prefix(created[2]) # << >>
  /\ Prefix(created[3]) = Body(created[2])

\* C29: _create_chunk removes a chunk from the queue only from a queue that
\* holds queue_maxsize chunks at that moment, whatever the dispatcher has
\* popped in between, and one chunk at a time.
C29_EvictOnlyFromFullQueue ==
  [][evicted' # evicted
       => /\ Len(chunk_queue) = config.queue_maxsize
          /\ Cardinality(evicted') = Cardinality(evicted) + 1]_vars

\* C30: the carried overlap is never longer than overlap_size_bytes; with
\* chunk_overlap_sec = 0 it is empty.
C30_OverlapBounded == LenBytes(previous_overlap) <= overlap_size_bytes

\* C31: dynamic mode with min_chunk_sec <= max_chunk_sec: the body of every
\* chunk is at least min_chunk_size_bytes long and shorter than
\* max_chunk_size_bytes plus the frame that triggered the cut, and the chunk
\* with its overlap prefix is at most overlap_size_bytes longer than that.
C31_DynamicChunkSizeBounds ==
  (vad_enabled /\ config.min_chunk_sec <= config.max_chunk_sec)
    => \A k \in 1..Len(created) :
         /\ LenBytes(Body(created[k])) >= min_chunk_size_bytes
         /\ LenBytes(Body(created[k])) < max_chunk_size_bytes + frame_blocks * BlockBytes
         /\ LenBytes(created[k].chunk)
              < max_chunk_size_bytes + frame_blocks * BlockBytes + overlap_size_bytes

\* C32: dynamic mode: whenever add_audio_data has returned, every ingested
\* byte is in an emitted chunk or in the buffer, and a byte still in the buffer
\* was ingested less than max_chunk_size_bytes ago, also when a speech_end
\* that the minimum guard suppressed was followed only by silence.
C32_EmittedWithinMax ==
  (vad_enabled /\ seg_pc = "idle")
    => /\ \A b \in 1..total_in :
            \/ \E k \in 1..Len(created) : \E i \in 1..Len(created[k].chunk) :
                 created[k].chunk[i] = b
            \/ /\ \E i \in 1..Len(buffer) : buffer[i] = b
               /\ (total_in - b) * BlockBytes < max_chunk_size_bytes
       /\ suppressed_end => LenBytes(buffer) < max_chunk_size_bytes

\* a speech_end on a buffer below the minimum cut nothing, silence followed,
\* and the forced cut emitted the audio
C32_Witness ==
  /\ vad_enabled /\ seg_pc = "idle" /\ Len(created) >= 1
  /\ created[Len(created)].after_suppressed_end
  /\ created[Len(created)].cause = "max"
  /\ ~vad.is_speaking /\ ~speech_seen
  /\ buffer = << >>

\* C33: when clear() returns on a stopped pipeline that ingested nothing
\* meanwhile, the buffer and the queue are empty, both counters are 0 and the
\* speech state is the initial one; the next chunk holds only bytes ingested
\* after the clear and carries no overlap.
C33_ClearIsolates ==
  /\ [][(last_clear'.n # last_clear.n /\ last_clear'.stopped)
        => /\ buffer' = << >> /\ chunk_queue' = << >>
           /\ total_chunks_processed' = 0 /\ total_chunks_skipped' = 0
           /\ ~is_speaking' /\ silence_duration_ms' = 0
           /\ vad' = VadInit]_vars
  /\ []((last_clear.n > 0 /\ last_clear.stopped /\ Len(created) > last_clear.created)
         => LET c == created[last_clear.created + 1]
            IN /\ c.overlap_len = 0
               /\ \A i \in 1..Len(c.chunk) : c.chunk[i] > last_clear.total_in)

\* C34: over the life of one manager, stop_processing followed by
\* start_processing with chunks left in the queue included, the timestamps of
\* the chunks are non-negative and non-decreasing in callback order.
C34_TimestampsNonDecreasing ==
  /\ \A k \in 1..Len(created) : created[k].timestamp >= 0
  /\ \A i, j \in 1..Len(callback_log) :
       i < j => created[callback_log[i]].timestamp <= created[callback_log[j]].timestamp

\* callbacks that have returned normally
ReturnedCallbacks ==
  Len(callback_log) - Cardinality(raised)
    - Cardinality({t \in Dispatchers : disp_pc[t] = "callback"})

\* C35: without clear(): whenever add_audio_data has returned, the chunks
\* created are those in the queue, those evicted and those dequeued; a dequeued
\* chunk is counted as processed or as skipped but not both, processed plus
\* skipped never exceeds the chunks dequeued, and total_chunks_processed is
\* the number of callbacks that returned normally.
C35_ChunkAccounting ==
  /\ seg_pc = "idle"
       => Len(created) = Len(chunk_queue) + Cardinality(evicted) + Len(dequeued)
  /\ \A n \in skipped : \A i \in 1..Len(callback_log) : callback_log[i] # n
  /\ total_chunks_skipped = Cardinality(skipped)
  /\ total_chunks_processed + total_chunks_skipped <= Len(dequeued)
  /\ total_chunks_processed = ReturnedCallbacks

\* a step of the caller inside stop_recording or stop_processing
StopCallStep ==
  \/ last_call' # last_call /\ last_call'.op \in {"stop_recording", "stop_processing"}
  \/ /\ caller_pc \in {"join_capture", "close_stream", "stop_processing", "join_dispatcher"}
     /\ caller_pc' # caller_pc

\* a step of the caller inside start_recording or start_processing
StartCallStep ==
  \/ last_call' # last_call /\ last_call'.op \in {"start_recording", "start_processing"}
  \/ caller_pc \in {"start_processing", "spawn_capture"} /\ caller_pc' # caller_pc

\* C36: no step of stop_recording or stop_processing changes the buffer, the
\* carried overlap, the speech state or the queue, or emits a chunk; a later
\* start leaves the buffer as it is, and the body of the next chunk begins
\* with the bytes the buffer held.
C36_StopKeepsRemainder ==
  /\ [][StopCallStep
         => UNCHANGED <<buffer, previous_overlap, is_speaking, silence_duration_ms,
                        vad, chunk_queue, created>>]_vars
  /\ [][StartCallStep => UNCHANGED <<buffer, previous_overlap, created>>]_vars
  /\ [][Len(created') > Len(created)
         => SubSeq(Body(created'[Len(created')]), 1, Len(buffer)) = buffer]_vars

\* one frame was captured, the recorder was stopped and started again, and the
\* chunk cut on the next frame begins with the frame left in the buffer
C36_Witness ==
  /\ last_call = [op |-> "start_recording", outcome |-> "opened", n |-> 3]
  /\ Len(created) = 1 /\ Body(created[1]) = <<1, 2>>
  /\ total_in = 2 /\ total_frames_recorded = chunk_size

\* C37: no thread waits for another forever: whoever holds buffer_lock can
\* take its next step at once and holds the lock only inside add_audio_data; a
\* capture thread or a caller of get_stats that wants the lock gets it as
\* soon as it is free; a caller inside clear or stop_recording, and every
\* dispatcher thread, can always take its next step, and none of them holds
\* buffer_lock while it works on the queue or waits for a thread.
C37_NoDeadlock ==
  /\ buffer_lock # None => (seg_pc # "idle" /\ ENABLED SegmenterStep)
  /\ \A c \in Captures :
       (cap_pc[c] = "add" /\ buffer_lock = None) => ENABLED CaptureAdd(c)
  /\ (caller_pc = "stats_buffer" /\ buffer_lock = None) => ENABLED GetBufferSize
  /\ caller_pc = "stats_queue" => ENABLED GetQueueSize
  /\ caller_pc \in {"clear_queue", "clear_counters"} => ENABLED Clear
  /\ caller_pc \in {"join_capture", "close_stream", "stop_processing", "join_dispatcher"}
       => ENABLED StopStep
  /\ \A t \in Dispatchers :
       disp_pc[t] \notin {"none", "exited"} => ENABLED DispatcherStep(t)
  /\ buffer_lock # Caller

\* a capture thread is inside add_audio_data with the queue full and the lock
\* held, the dispatcher is inside a callback, and the caller of get_stats
\* waits for the lock
C37_Witness ==
  /\ seg_pc = "evict" /\ buffer_lock \in Captures
  /\ \E t \in Dispatchers : disp_pc[t] = "callback"
  /\ caller_pc = "stats_buffer"

\* C38: start_recording called while is_recording is true, and
\* start_processing called while is_processing is true, return at once and
\* change nothing: no second stream, no second thread, start_time and
\* total_frames_recorded as before.
C38_StartIsIdempotent ==
  [][(/\ last_call'.n # last_call.n
      /\ \/ last_call'.op = "start_recording" /\ is_recording
         \/ last_call'.op = "start_processing" /\ is_processing)
       => /\ last_call'.outcome = "already_started"
          /\ UNCHANGED AllButLastCall]_vars

\* the third public call, a start_recording on a recorder that records, has
\* returned at its first test; frames are counted and one thread of each kind runs
C38_Witness ==
  /\ last_call = [op |-> "start_recording", outcome |-> "already_started", n |-> 3]
  /\ is_recording /\ is_processing /\ stream = OpenStream
  /\ total_frames_recorded > 0 /\ start_time # None
  /\ Cardinality(LiveCaptures) = 1 /\ Cardinality(LiveDispatchers) = 1
  /\ caller_pc = "idle"

\* the thresholds the table gives for the levels 0 to 3, in tenths
ThresholdTable == <<1, 3, 5, 7>>

\* C39: set_aggressiveness with a level outside 0..3, or on a classifier that
\* is not available, changes nothing; with a level in 0..3 on an available
\* classifier it sets aggressiveness to the level and threshold to the
\* table's value: 0.1, 0.3, 0.5, 0.7.
C39_SetAggressivenessTable ==
  [][(vad_calls' # vad_calls /\ vad_call'.op = "set_aggressiveness")
       => LET level == vad_call'.input[1]
          IN IF SILERO_VAD_AVAILABLE /\ level \in 0..3
             THEN /\ aggressiveness' = level
                  /\ threshold' = ThresholdTable[level + 1]
             ELSE /\ UNCHANGED <<aggressiveness, threshold, vad, speech_seen>>
                  /\ vad_call'.result \in {"rejected", "unavailable"}]_vars

\* level 3 was set, and a later call with a level outside 0..3 has left it
C39_Witness ==
  /\ vad_call.op = "set_aggressiveness" /\ vad_call.result = "rejected"
  /\ vad_call.input[1] \notin 0..3
  /\ aggressiveness = 3 /\ threshold = 7

====
